---------------------------- MODULE Spec2Model ----------------------------
(***************************************************************************)
(* Model of the trajectory store of mushroom_rl                            *)
(* (mushroom_rl/environments/mujoco_envs/humanoids/trajectory.py, class    *)
(* Trajectory) together with the caller pattern of base_humanoid.py.       *)
(*                                                                         *)
(* Numbers.  The arrays of the program hold floating point numbers.  The   *)
(* model computes with exact rationals: a value is a pair <<n, d>> in      *)
(* lowest terms with d > 0.  Rounding error of the floating point unit is  *)
(* not modelled.  Time steps (traj_dt, control_dt) are integers counted in *)
(* a common unit, so that the resampling factor traj_dt / control_dt is    *)
(* an exact rational.                                                      *)
(*                                                                         *)
(* Arrays.  A trajectory is channel-major: a sequence of channels, each a  *)
(* sequence of values.  TLA+ sequences start at 1, numpy arrays at 0; the  *)
(* operators PyValid / PyAt translate a numpy index (negative indices      *)
(* count from the end) into a sequence index.                              *)
(*                                                                         *)
(* Exceptions.  A call that raises leaves the name of the exception in     *)
(* err; the fields it assigned before the raising statement stay assigned. *)
(***************************************************************************)
EXTENDS Integers, Sequences, FiniteSets, TLC

(***************************************************************************)
(* Bounds of the model.                                                    *)
(***************************************************************************)
MinLen == 3        \* shortest recorded trajectory (too short to interpolate)
MaxLen == 4        \* longest recorded trajectory
MaxShape == 1      \* number of recorded archives the constructor is tried on
RandDen == 4       \* np.random.rand() is drawn from {0/RandDen .. (RandDen-1)/RandDen}
MaxWraps == 2      \* get_next_sub_trajectory invocations explored after a reset
MaxCount == 2      \* largest number_of_walking_steps a segment is extracted for
MaxQuerySamples == 0   \* segments and datasets are extracted in the states with
                       \* at most this many get_next_sample calls since the
                       \* construction or the last reset

(***************************************************************************)
(* Exact rational arithmetic.                                              *)
(***************************************************************************)
Abs(n) == IF n < 0 THEN -n ELSE n

RECURSIVE GCD(_, _)
GCD(a, b) == IF b = 0 THEN a ELSE GCD(b, a % b)

\* the rational n/d (d # 0) in lowest terms with a positive denominator
Frac(n, d) ==
    LET g == GCD(Abs(n), Abs(d))
        s == IF d < 0 THEN -1 ELSE 1
    IN  <<(s * n) \div g, (s * d) \div g>>

Zero == <<0, 1>>
FromInt(n) == <<n, 1>>
FAdd(a, b) == Frac(a[1] * b[2] + b[1] * a[2], a[2] * b[2])
FSub(a, b) == Frac(a[1] * b[2] - b[1] * a[2], a[2] * b[2])
FMul(a, b) == Frac(a[1] * b[1], a[2] * b[2])
FDiv(a, b) == Frac(a[1] * b[2], a[2] * b[1])

\* floor of the rational n/d, d > 0
Floor(n, d) == n \div d

\* Python's round() and np.round(): to the nearest integer, ties to even
RoundHalfEven(n, d) ==
    LET q == Floor(n, d)
        r == n - q * d
    IN  IF 2 * r < d THEN q
        ELSE IF 2 * r > d THEN q + 1
        ELSE IF q % 2 = 0 THEN q ELSE q + 1

(***************************************************************************)
(* numpy indexing of a sequence of length len with index i.                *)
(***************************************************************************)
PyValid(len, i) == -len <= i /\ i < len
PyAt(len, i)    == IF i < 0 THEN len + i + 1 ELSE i + 1

(***************************************************************************)
(* scipy.interpolate.interp1d(x, y, kind="cubic") on the knots             *)
(* x = 0, 1, .., n-1: the interpolating cubic spline with not-a-knot end   *)
(* conditions.  With unit knot spacing the second derivatives M of the     *)
(* spline satisfy M[i-1] + 4 M[i] + M[i+1] = 6 D2(i) at the inner knots    *)
(* and the not-a-knot conditions give M[2] = D2(2), M[n-1] = D2(n-1),      *)
(* M[1] = 2 M[2] - M[3], M[n] = 2 M[n-1] - M[n-2].  The inner system is    *)
(* tridiagonal and is solved by forward elimination (Sweep) and back       *)
(* substitution (SecondDeriv).  Knots are numbered from 1 here.            *)
(***************************************************************************)
D2(y, i) == FSub(FAdd(y[i - 1], y[i + 1]), FMul(FromInt(2), y[i]))

RECURSIVE Sweep(_, _)
Sweep(y, i) ==
    IF i = 2 THEN <<Zero, D2(y, 2)>>
    ELSE LET p   == Sweep(y, i - 1)
             den == FSub(FromInt(4), p[1])
         IN  <<FDiv(FromInt(1), den),
               FDiv(FSub(FMul(FromInt(6), D2(y, i)), p[2]), den)>>

RECURSIVE SecondDeriv(_, _)
SecondDeriv(y, i) ==
    LET n == Len(y) IN
    IF i = n - 1 THEN D2(y, n - 1)
    ELSE IF i = 1 THEN FSub(FMul(FromInt(2), SecondDeriv(y, 2)), SecondDeriv(y, 3))
    ELSE IF i = n THEN FSub(FMul(FromInt(2), D2(y, n - 1)), SecondDeriv(y, n - 2))
    ELSE LET p == Sweep(y, i)
         IN  FSub(p[2], FMul(p[1], SecondDeriv(y, i + 1)))

\* value of the spline through y at the abscissa t, 0 <= t <= Len(y) - 1
Cubic(y, t) ==
    LET n  == Len(y)
        f  == Floor(t[1], t[2])
        k  == IF f > n - 2 THEN n - 2 ELSE f        \* interval [k, k+1]
        a  == FSub(t, FromInt(k))
        b  == FSub(FromInt(1), a)
        m0 == FDiv(SecondDeriv(y, k + 1), FromInt(6))
        m1 == FDiv(SecondDeriv(y, k + 2), FromInt(6))
    IN  FAdd(FAdd(FMul(m0, FMul(b, FMul(b, b))), FMul(m1, FMul(a, FMul(a, a)))),
             FAdd(FMul(FSub(y[k + 1], m0), b), FMul(FSub(y[k + 2], m1), a)))

\* np.linspace(0, stop, num, endpoint=True)[j], j = 1 .. num
Linspace(stop, num, j) ==
    IF num = 1 THEN Zero ELSE Frac((j - 1) * stop, num - 1)

(***************************************************************************)
(* Inputs of the constructor.                                              *)
(***************************************************************************)
\* number of keys the environment passes (3 channels: x, y and one more)
Nch == 3

\* a recorded channel of length len: a ramp with a superimposed zigzag
Signal(k, len) == [t \in 1..len |-> FromInt(k * t + (t % 2) * (k - 1))]

\* the recorded channels of archive k: one signal per key
Archive(k, len) == [c \in 1..Nch |-> Signal(k + c - 1, len)]

\* (traj_dt, control_dt) in a common unit: equal steps, up- and down-sampling,
\* down-sampling to nothing, and steps that are zero or negative
DtPairs == {<<1, 1>>, <<2, 1>>, <<2, 3>>, <<1, 8>>,
            <<0, 1>>, <<1, 0>>, <<-1, 1>>}

\* the 'split_points' array of the archive, when it has one
SplitChoices(len) == {<<0, 2, len>>, <<1, len>>}

VARIABLES
    pc,                 \* "new": not constructed, "ready": store exists,
                        \* "failed": the constructor raised
    file_traj,          \* the channels read from the archive (self._trajectory_files[key])
    file_split,         \* [has |-> "split_points" in the archive, pts |-> its value]
    traj_dt,            \* arguments of the constructor
    control_dt,
    trajectory,         \* self.trajectory
    split_points,       \* self.split_points
    n_repeating_steps,  \* self.n_repeating_steps
    subtraj,            \* self.subtraj
    subtraj_step_no,    \* self.subtraj_step_no
    x_dist,             \* self.x_dist
    ret,                \* the (qpos, qvel) the last returning reset handed out
    sample,             \* the sample the caller holds: the array the last returning
                        \* get_next_sample handed out; view tells whether it shares
                        \* memory with column col of self.subtraj
    err,                \* the exception the last call raised, or "none"
    lastOp,             \* the name of the last call
    hist,               \* the calls since the last reset: its kind and start step,
                        \* whether it returned, the get_next_sample calls (nsamp) and
                        \* get_next_sub_trajectory invocations (nsub) after it, and
                        \* whether get_next_sub_trajectory was never called directly
                        \* (pure)
    out,                \* what the last _get_traj_gait_sub_steps or create_dataset
                        \* call returned, with the arguments of the call; dropped
                        \* by the caller at its next call
    env_class,          \* the gym wrapper that is constructed: "AntEnvPOMPD" or
                        \* "HalfCheetahEnvPOMPD"
    kwargs,             \* the arguments of its constructor
    _obs_to_hide,       \* self._obs_to_hide
    _force_strength,    \* self._force_strength
    _forward_reward_weight,   \* self._forward_reward_weight
    xfrc_applied,       \* self.data.xfrc_applied[torso_index, 0]
    observation,        \* what the last _get_obs returned
    error_terminate,    \* CompleteTrajectoryReward: self.error_terminate
    terminate_trajectory_flag,   \* self.terminate_trajectory_flag
    norm_traj_reward    \* what the last __call__ of the reward returned

vars == <<pc, file_traj, file_split, traj_dt, control_dt, trajectory,
          split_points, n_repeating_steps, subtraj, subtraj_step_no, x_dist,
          ret, sample, err, lastOp, hist, out,
          env_class, kwargs, _obs_to_hide, _force_strength,
          _forward_reward_weight, xfrc_applied, observation,
          error_terminate, terminate_trajectory_flag, norm_traj_reward>>

inputs == <<file_traj, file_split, traj_dt, control_dt>>

\* the state of the gym wrappers and of the trajectory reward
wrapper == <<env_class, kwargs, _obs_to_hide, _force_strength,
             _forward_reward_weight, xfrc_applied, observation>>
tracker == <<error_terminate, terminate_trajectory_flag, norm_traj_reward>>
fields == <<trajectory, split_points, n_repeating_steps, subtraj,
            subtraj_step_no, x_dist>>

NoRet == [has |-> FALSE, qpos |-> <<>>, qvel |-> <<>>]
NoSample == [has |-> FALSE, vals |-> <<>>, view |-> FALSE, col |-> 0]
NoHist == [reset |-> "none", start |-> 0, ok |-> FALSE, nsamp |-> 0, nsub |-> 0,
           pure |-> TRUE]
NoKwargs == [obs_to_hide |-> [is_str |-> FALSE, str |-> "", items |-> <<>>],
             random_force_com |-> FALSE, max_force_strength |-> 0,
             forward_reward_weight |-> 0,
             exclude_current_positions_from_observation |-> FALSE]
NoReward == [has |-> FALSE, val |-> <<0, 1>>]
NoOut == [kind |-> "none", args |-> <<>>, seg |-> <<>>, states |-> <<>>,
          next_states |-> <<>>, absorbing |-> <<>>]

\* number of time steps of a channel-major array (shape[1])
Shape1(traj) == IF Len(traj) = 0 THEN 0 ELSE Len(traj[1])

\* Trajectory.traj_length
traj_length == Shape1(subtraj)

\* no gym wrapper / no trajectory reward is part of the run
NoWrapper ==
    /\ env_class = "none"
    /\ kwargs = NoKwargs
    /\ _obs_to_hide = <<>>
    /\ _force_strength = 0
    /\ _forward_reward_weight = 0
    /\ xfrc_applied = 0
    /\ observation = <<>>

NoTracker ==
    /\ error_terminate = FALSE
    /\ terminate_trajectory_flag = FALSE
    /\ norm_traj_reward = NoReward

Init ==
    /\ pc = "new"
    /\ \E len \in MinLen..MaxLen :
         /\ file_traj \in {Archive(k, len) : k \in 1..MaxShape}
         /\ file_split \in {[has |-> FALSE, pts |-> <<>>]}
                \cup {[has |-> TRUE, pts |-> sp] : sp \in SplitChoices(len)}
    /\ \E dts \in DtPairs :
         /\ traj_dt = dts[1]
         /\ control_dt = dts[2]
    /\ trajectory = <<>>
    /\ split_points = <<>>
    /\ n_repeating_steps = 0
    /\ subtraj = <<>>
    /\ subtraj_step_no = 0
    /\ x_dist = Zero
    /\ ret = NoRet
    /\ sample = NoSample
    /\ err = "none"
    /\ lastOp = "none"
    /\ hist = NoHist
    /\ out = NoOut
    /\ NoWrapper
    /\ NoTracker

(***************************************************************************)
(* Trajectory.__init__                                                     *)
(***************************************************************************)
\* new_traj_sampling_factor = (1 / 1.0) * (traj_dt / control_dt), control_dt # 0
Factor(tdt, cdt) == Frac(tdt, cdt)

\* a faulty variant of NewLength: truncates instead of rounding
NewLengthTruncated(len, factor) == Floor(len * factor[1], factor[2])

\* round(traj.shape[1] * factor)
NewLength(len, factor) == RoundHalfEven(len * factor[1], factor[2])

\* Trajectory._interpolate_trajectory, for len >= 4 and NewLength >= 0
InterpolateTrajectory(traj, factor) ==
    LET len == Shape1(traj)
        num == NewLength(len, factor)
    IN  [c \in 1..Len(traj) |->
            [j \in 1..num |-> Cubic(traj[c], Linspace(len - 1, num, j))]]

\* np.round(split_points * factor).astype(np.int32)
RescaleSplitPoints(pts, factor) ==
    [i \in 1..Len(pts) |-> RoundHalfEven(pts[i] * factor[1], factor[2])]

\* a faulty variant of DefaultSplitPoints: ends at the last index
DefaultSplitPointsLastIndex(traj) == <<0, Shape1(traj) - 1>>

\* np.array([0, self.trajectory.shape[1]]) of an archive without split_points
DefaultSplitPoints(traj) == <<0, Shape1(traj)>>

\* the exception __init__ raises for these inputs, or "none"
ConstructError(traj, tdt, cdt) ==
    IF tdt = cdt THEN "NameError"                 \* traj_speed_mult is not defined
    ELSE IF cdt = 0 THEN "ZeroDivisionError"      \* traj_dt / control_dt
    ELSE IF NewLength(Shape1(traj), Factor(tdt, cdt)) < 0
         THEN "ValueError"                        \* np.linspace: negative num
    ELSE IF Shape1(traj) < 4 THEN "ValueError"    \* interp1d: cubic needs 4 points
    ELSE "none"

Construct ==
    /\ pc = "new"
    /\ LET loaded == [c \in 1..Nch |-> file_traj[c]]
           pts    == IF file_split.has THEN file_split.pts
                     ELSE DefaultSplitPoints(loaded)
           e      == ConstructError(loaded, traj_dt, control_dt)
       IN  /\ err' = e
           /\ lastOp' = "__init__"
           /\ IF e # "none"
              THEN /\ pc' = "failed"
                   /\ UNCHANGED fields
              ELSE LET factor == Factor(traj_dt, control_dt)
                       new    == InterpolateTrajectory(loaded, factor)
                   IN  /\ pc' = "ready"
                       /\ trajectory' = new
                       /\ split_points' = RescaleSplitPoints(pts, factor)
                       /\ n_repeating_steps' = Len(pts) - 1
                       /\ subtraj_step_no' = 0
                       /\ x_dist' = Zero
                       /\ subtraj' = new
    /\ out' = NoOut
    /\ UNCHANGED <<wrapper, tracker, inputs, ret, sample, hist>>

(***************************************************************************)
(* Array helpers.                                                          *)
(***************************************************************************)
\* traj[:, i] for a valid numpy index i
Column(traj, i) == [c \in 1..Len(traj) |-> traj[c][PyAt(Shape1(traj), i)]]

\* traj[ch, :] -= traj[ch, i]   (ch counted from 1 here)
SubtractAt(traj, ch, i) ==
    [traj EXCEPT ![ch] =
        [t \in 1..Len(traj[ch]) |-> FSub(traj[ch][t], traj[ch][PyAt(Len(traj[ch]), i)])]]

\* seq[lo:hi] of numpy for 0 <= lo, 0 <= hi
Slice(seq, lo, hi) ==
    LET h == IF hi > Len(seq) THEN Len(seq) ELSE hi
    IN  IF lo >= h THEN <<>> ELSE [i \in 1..(h - lo) |-> seq[lo + i]]

(***************************************************************************)
(* Trajectory.reset_trajectory(len_q_pos, len_qvel, substep_no=None)       *)
(***************************************************************************)
\* the two positional parameters without a default
RequiredResetArgs == 2

\* len_q_pos and len_qvel as len_qpos_qvel() of the environment counts them:
\* the keys that start with "q_" and with "dq_"
LenQpos == 2
LenQvel == Nch - LenQpos

\* the start steps a caller passes: inside the trajectory and one past its end
StartSteps(len) == 0..len

\* a faulty variant of RandomStart: draws from the whole length
RandomStartWholeLength(r, len) == Floor(r * len, RandDen)

\* int(np.random.rand() * (self.traj_length * 0.45)) for rand = r / RandDen
RandomStart(r, len) == Floor(r * len * 45, RandDen * 100)

\* a faulty variant of ZeroOffset: shifts relative to the first column
ZeroOffsetAtFirstColumn(traj, cursor) == SubtractAt(SubtractAt(traj, 1, 0), 2, 0)

\* a faulty variant of ZeroOffset: shifts channel 0 only
ZeroOffsetFirstChannelOnly(traj, cursor) == SubtractAt(traj, 1, cursor)

\* the working copy with channels 0 and 1 shifted to be zero at the cursor
ZeroOffset(traj, cursor) == SubtractAt(SubtractAt(traj, 1, cursor), 2, cursor)

\* a faulty variant of DistanceAtReset: the distance is carried over
DistanceAtResetKept(x) == x

\* self.x_dist = 0
DistanceAtReset(x) == Zero

\* a faulty variant of WorkingCopy: the copy holds the first repeat only
WorkingCopyOfFirstRepeat(traj) ==
    [c \in 1..Len(traj) |-> Slice(traj[c], split_points[1], split_points[2])]

\* self.subtraj = self.trajectory.copy()
WorkingCopy(traj) == traj

\* a faulty variant of QvelOf: reads the velocities from channel 0 on
QvelOfFromStart(col, lq, lv) == Slice(col, 0, lv)

\* self.subtraj[:len_q_pos, cursor] and
\* self.subtraj[len_q_pos:len_q_pos + len_qvel, cursor] out of column cursor
QposOf(col, lq) == Slice(col, 0, lq)
QvelOf(col, lq, lv) == Slice(col, lq, lq + lv)

\* the fields and the result of a reset that starts at cursor
ResetAt(lq, lv, cursor, kind) ==
    LET base == WorkingCopy(trajectory)
        ok == PyValid(Shape1(base), cursor)
        st == IF ok THEN ZeroOffset(base, cursor) ELSE base
        at == Column(st, cursor)
    IN  /\ x_dist' = DistanceAtReset(x_dist)
        /\ subtraj_step_no' = cursor
        /\ subtraj' = st
        /\ sample' = NoSample       \* the caller starts over and holds no sample
        /\ out' = NoOut
        /\ err' = IF ok THEN "none" ELSE "IndexError"
        /\ ret' = IF ok THEN [has |-> TRUE, qpos |-> QposOf(at, lq),
                              qvel |-> QvelOf(at, lq, lv)]
                  ELSE ret
        /\ hist' = [reset |-> kind, start |-> cursor, ok |-> ok, nsamp |-> 0,
                    nsub |-> 0, pure |-> TRUE]
        /\ UNCHANGED <<wrapper, tracker, pc, inputs, trajectory, split_points, n_repeating_steps>>

\* reset_trajectory(len_q_pos, len_qvel, substep_no=s)
ResetExplicit ==
    /\ pc = "ready"
    /\ \E s \in StartSteps(traj_length) :
         /\ lastOp' = "reset_trajectory"
         /\ ResetAt(LenQpos, LenQvel, s, "explicit")

\* reset_trajectory(len_q_pos, len_qvel)
ResetRandom ==
    /\ pc = "ready"
    /\ \E r \in 0..(RandDen - 1) :
         /\ lastOp' = "reset_trajectory"
         /\ ResetAt(LenQpos, LenQvel, RandomStart(r, traj_length), "random")

(***************************************************************************)
(* Trajectory.get_next_sub_trajectory                                      *)
(***************************************************************************)
\* a faulty variant of WrapResetArgs: the call passes both arguments
WrapResetArgsComplete == RequiredResetArgs

\* self.reset_trajectory() as get_next_sub_trajectory calls it: the call passes
\* no argument, the binding of the parameters fails and the body never runs
WrapResetArgs == 0

\* a faulty variant of SubTrajectoryStep: accumulates the first value of channel 0
SubTrajectoryStepFirstValue ==
    IF ~PyValid(traj_length, -1)
    THEN [x_dist |-> x_dist, err |-> "IndexError"]
    ELSE [x_dist |-> FAdd(x_dist, subtraj[1][PyAt(traj_length, 0)]),
          err    |-> IF WrapResetArgs < RequiredResetArgs THEN "TypeError"
                     ELSE "none"]

\* x_dist and the exception of get_next_sub_trajectory
SubTrajectoryStep ==
    IF ~PyValid(traj_length, -1)
    THEN [x_dist |-> x_dist, err |-> "IndexError"]          \* self.subtraj[0][-1]
    ELSE [x_dist |-> FAdd(x_dist, subtraj[1][PyAt(traj_length, -1)]),
          err    |-> IF WrapResetArgs < RequiredResetArgs THEN "TypeError"
                     ELSE "none"]

GetNextSubTrajectory ==
    /\ pc = "ready"
    /\ hist.nsub < MaxWraps
    /\ LET w == SubTrajectoryStep
       IN  /\ x_dist' = w.x_dist
           /\ err' = w.err
    /\ lastOp' = "get_next_sub_trajectory"
    /\ out' = NoOut
    /\ hist' = [hist EXCEPT !.nsub = @ + 1, !.pure = FALSE]
    /\ UNCHANGED <<wrapper, tracker, pc, inputs, trajectory, split_points, n_repeating_steps,
                   subtraj, subtraj_step_no, ret, sample>>

(***************************************************************************)
(* Trajectory.get_next_sample                                              *)
(***************************************************************************)
\* a faulty variant of NeedsWrap: wraps one call early
NeedsWrapEarly(cursor, len) == cursor + 1 >= len

\* does the call go through get_next_sub_trajectory first
NeedsWrap(cursor, len) == cursor >= len

\* a faulty variant of CopyOut: reads the full trajectory, not the working copy
CopyOutOfTrajectory(traj, cursor) ==
    [has |-> TRUE, vals |-> Column(trajectory, cursor), view |-> FALSE, col |-> cursor]

\* a faulty variant of CopyOut: hands out the column itself, a numpy view
CopyOutView(traj, cursor) ==
    [has |-> TRUE, vals |-> Column(traj, cursor), view |-> TRUE, col |-> cursor]

\* sample = deepcopy(self.subtraj[:, cursor]): a fresh array, no shared memory
CopyOut(traj, cursor) ==
    [has |-> TRUE, vals |-> Column(traj, cursor), view |-> FALSE, col |-> cursor]

\* a faulty variant of NextCursor: advances although the call raised
NextCursorAlways(cursor, e) == cursor + 1

\* self.subtraj_step_no += 1, reached only when nothing raised before it
NextCursor(cursor, e) == IF e = "none" THEN cursor + 1 ELSE cursor

GetNextSample ==
    /\ pc = "ready"
    /\ LET wrap == NeedsWrap(subtraj_step_no, traj_length)
           w    == IF wrap THEN SubTrajectoryStep
                   ELSE [x_dist |-> x_dist, err |-> "none"]
           e    == IF w.err # "none" THEN w.err
                   ELSE IF ~PyValid(traj_length, subtraj_step_no) THEN "IndexError"
                   ELSE "none"
       IN  /\ wrap => hist.nsub < MaxWraps
           /\ x_dist' = w.x_dist
           /\ err' = e
           /\ hist' = [hist EXCEPT !.nsamp = @ + 1,
                                   !.nsub = IF wrap THEN @ + 1 ELSE @]
           /\ sample' = IF e = "none" THEN CopyOut(subtraj, subtraj_step_no)
                         ELSE sample
           /\ subtraj_step_no' = NextCursor(subtraj_step_no, e)
    /\ lastOp' = "get_next_sample"
    /\ out' = NoOut
    /\ UNCHANGED <<wrapper, tracker, pc, inputs, trajectory, split_points, n_repeating_steps,
                   subtraj, ret>>

(***************************************************************************)
(* The caller writes into the sample it was handed                         *)
(* (BaseHumanoid.play_trajectory_demo_from_velocity: sample[:len(qpos)] =  *)
(* qpos).  A write into an array that shares memory with self.subtraj      *)
(* changes self.subtraj as well.                                           *)
(***************************************************************************)
\* the positions the caller integrates from the velocities
WriteVals == {FromInt(-1)}

ModifySample ==
    /\ pc = "ready"
    /\ sample.has
    /\ \E v \in WriteVals :
         LET n == IF LenQpos > Len(sample.vals) THEN Len(sample.vals) ELSE LenQpos
         IN  /\ \E i \in 1..n : sample.vals[i] # v
             /\ sample' = [sample EXCEPT !.vals =
                              [i \in 1..Len(sample.vals) |->
                                  IF i <= n THEN v ELSE sample.vals[i]]]
             /\ subtraj' = IF sample.view
                           THEN [c \in 1..Len(subtraj) |->
                                   IF c <= n
                                   THEN [subtraj[c] EXCEPT
                                            ![PyAt(traj_length, sample.col)] = v]
                                   ELSE subtraj[c]]
                           ELSE subtraj
    /\ lastOp' = "modify_sample"
    /\ out' = NoOut
    /\ UNCHANGED <<wrapper, tracker, pc, inputs, trajectory, split_points, n_repeating_steps,
                   subtraj_step_no, x_dist, ret, err, hist>>

(***************************************************************************)
(* Trajectory._get_traj_gait_sub_steps(initial_walking_step,               *)
(*                                     number_of_walking_steps=1)          *)
(***************************************************************************)
\* the repeat indices a caller passes: the n repeats and one past the last
WalkingSteps(n) == 0..n

\* a faulty variant of SplitPointAt: an index past the end reads the last point
SplitPointAtClipped(sp, i) ==
    [ok |-> Len(sp) > 0,
     v  |-> IF PyValid(Len(sp), i) THEN sp[PyAt(Len(sp), i)]
            ELSE IF Len(sp) > 0 THEN sp[Len(sp)] ELSE 0]

\* self.split_points[i]: the entry, or no entry (IndexError)
SplitPointAt(sp, i) ==
    [ok |-> PyValid(Len(sp), i),
     v  |-> IF PyValid(Len(sp), i) THEN sp[PyAt(Len(sp), i)] ELSE 0]

\* a faulty variant of SegmentColumns: includes the end column
SegmentColumnsInclusive(traj, lo, hi) ==
    [c \in 1..Len(traj) |-> Slice(traj[c], lo, hi + 1)]

\* self.trajectory[:, lo:hi]
SegmentColumns(traj, lo, hi) ==
    [c \in 1..Len(traj) |-> Slice(traj[c], lo, hi)]

\* a faulty variant of ShiftFirstChannel: shifts every channel
ShiftEveryChannel(sub, v) ==
    [c \in 1..Len(sub) |-> [t \in 1..Len(sub[c]) |-> FSub(sub[c][t], v)]]

\* sub_traj[0, :] -= v
ShiftFirstChannel(sub, v) ==
    [c \in 1..Len(sub) |->
        IF c = 1 THEN [t \in 1..Len(sub[c]) |-> FSub(sub[c][t], v)]
        ELSE sub[c]]

\* a faulty variant of StoreAfterShift: the segment is a view of
\* self.trajectory, so the shift of its channel 0 lands in columns lo..hi-1
StoreAfterShiftOfView(traj, lo, hi, v) ==
    [c \in 1..Len(traj) |->
        IF c = 1
        THEN [t \in 1..Len(traj[c]) |->
                 IF lo < t /\ t <= hi THEN FSub(traj[c][t], v) ELSE traj[c][t]]
        ELSE traj[c]]

\* self.trajectory after the shift: the segment is a copy (.copy(), line 164),
\* the shift stays in it
StoreAfterShift(traj, lo, hi, v) == traj

\* the exception, the returned segment and self.trajectory after the call
GaitSubSteps(traj, sp, i, N) ==
    LET a == SplitPointAt(sp, i)
        b == SplitPointAt(sp, i + N)
    IN  IF ~a.ok \/ ~b.ok
        THEN [err |-> "IndexError", seg |-> <<>>, traj |-> traj]
        ELSE IF Len(traj) = 0 \/ ~PyValid(Shape1(traj), a.v)
        THEN [err |-> "IndexError", seg |-> <<>>, traj |-> traj]  \* trajectory[0][start]
        ELSE LET x == traj[1][PyAt(Shape1(traj), a.v)]
             IN  [err  |-> "none",
                  seg  |-> ShiftFirstChannel(SegmentColumns(traj, a.v, b.v), x),
                  traj |-> StoreAfterShift(traj, a.v, b.v, x)]

GetTrajGaitSubSteps ==
    /\ pc = "ready"
    /\ hist.nsamp <= MaxQuerySamples
    /\ \E i \in WalkingSteps(n_repeating_steps), N \in 1..MaxCount :
         LET g == GaitSubSteps(trajectory, split_points, i, N)
         IN  /\ err' = g.err
             /\ out' = [NoOut EXCEPT !.kind = "segment", !.args = <<i, N>>,
                                     !.seg = g.seg]
             /\ trajectory' = g.traj
    /\ lastOp' = "_get_traj_gait_sub_steps"
    /\ UNCHANGED <<wrapper, tracker, pc, inputs, split_points, n_repeating_steps, subtraj,
                   subtraj_step_no, x_dist, ret, sample, hist>>

(***************************************************************************)
(* Trajectory.create_dataset(ignore_keys=[], normalizer=None), called      *)
(* directly or through BaseHumanoid.create_dataset; the calls without a    *)
(* normalizer.                                                             *)
(***************************************************************************)
\* self.keys: the observation keys of the environment, one per channel
Keys == <<"q_pelvis_tx", "q_pelvis_tz", "dq_pelvis_tx">>

\* the ignore_keys a caller passes: none, a key of the store, an unknown key
IgnoreChoices == {<<>>, <<"q_pelvis_tz">>, <<"dq_pelvis_tz">>}

\* for ikey in ignore_keys: del all_data[ikey], on the channels kept so far
RECURSIVE DeleteKeys(_, _)
DeleteKeys(kept, ign) ==
    IF Len(ign) = 0 THEN [err |-> "none", kept |-> kept]
    ELSE IF \A j \in 1..Len(kept) : Keys[kept[j]] # Head(ign)
    THEN [err |-> "KeyError", kept |-> kept]
    ELSE DeleteKeys(SelectSeq(kept, LAMBDA c : Keys[c] # Head(ign)), Tail(ign))

\* states[:-1]
AllButLast(seq) == IF Len(seq) = 0 THEN <<>> ELSE SubSeq(seq, 1, Len(seq) - 1)

\* a faulty variant of AllButFirst: the next states are not shifted
AllButFirstUnshifted(seq) == AllButLast(seq)

\* states[1:]
AllButFirst(seq) == IF Len(seq) = 0 THEN <<>> ELSE Tail(seq)

\* the exception and the dictionary create_dataset returns
Dataset(traj, ign) ==
    LET d      == DeleteKeys([c \in 1..Len(traj) |-> c], ign)
        T      == IF Len(d.kept) = 0 THEN 0 ELSE Shape1(traj)
        states == [t \in 1..T |-> [j \in 1..Len(d.kept) |-> traj[d.kept[j]][t]]]
    IN  IF d.err # "none"
        THEN [err |-> d.err, states |-> <<>>, next_states |-> <<>>,
              absorbing |-> <<>>]
        ELSE [err         |-> "none",
              states      |-> AllButLast(states),
              next_states |-> AllButFirst(states),
              absorbing   |-> [t \in 1..Len(AllButLast(states)) |-> Zero]]

CreateDataset ==
    /\ pc = "ready"
    /\ hist.nsamp <= MaxQuerySamples
    /\ \E ign \in IgnoreChoices :
         LET d == Dataset(trajectory, ign)
         IN  /\ err' = d.err
             /\ out' = [NoOut EXCEPT !.kind = "dataset", !.args = ign,
                                     !.states = d.states,
                                     !.next_states = d.next_states,
                                     !.absorbing = d.absorbing]
    /\ lastOp' = "create_dataset"
    /\ UNCHANGED <<wrapper, tracker, pc, inputs, trajectory, split_points, n_repeating_steps,
                   subtraj, subtraj_step_no, x_dist, ret, sample, hist>>

Next ==
    \/ Construct
    \/ ResetExplicit
    \/ ResetRandom
    \/ GetNextSample
    \/ GetNextSubTrajectory
    \/ ModifySample
    \/ GetTrajGaitSubSteps
    \/ CreateDataset

Spec == Init /\ [][Next]_vars

(***************************************************************************)
(* The gym wrappers AntEnvPOMPD and HalfCheetahEnvPOMPD                    *)
(* (mushroom_rl/environments/gym_mujoco_pomdp).  The simulation of gym is  *)
(* not part of the model: qpos, qvel and the contact forces are fixed      *)
(* arrays of named entries, forces and weights are integers.               *)
(***************************************************************************)
\* the elements of a tuple
Elems(seq) == {seq[i] : i \in 1..Len(seq)}

\* an obs_to_hide argument that is a str / a tuple of str
Str(s) == [is_str |-> TRUE, str |-> s, items |-> <<>>]
Tup(t) == [is_str |-> FALSE, str |-> "", items |-> t]

\* the obs_to_hide arguments a caller passes
ObsChoices ==
    {Str("velocities"), Str("contact_forces"), Str("torques"),
     Tup(<<>>), Tup(<<"velocities">>), Tup(<<"positions">>),
     Tup(<<"contact_forces">>), Tup(<<"velocities", "positions">>),
     Tup(<<"positions", "velocities", "contact_forces">>),
     Tup(<<"velocities", "torques">>),
     Tup(<<"positions", "velocities", "contact_forces", "torques">>)}

\* max_force_strength and forward_reward_weight as the caller passes them
ForceChoices == {0, 5}
WeightChoices == {-2, 0, 1}

\* self._hidable_obs
HidableObs(cls) ==
    IF cls = "AntEnvPOMPD" THEN <<"positions", "velocities", "contact_forces">>
    ELSE <<"positions", "velocities">>

\* a faulty variant of AsTuple: a str is not wrapped
AsTupleDropped(arg) == arg.items

\* if type(obs_to_hide) == str: obs_to_hide = (obs_to_hide,)
AsTuple(arg) == IF arg.is_str THEN <<arg.str>> ELSE arg.items

\* the two assertions of __init__: the first that fails, or "none"
AssertObsToHide(cls, t) ==
    IF \A x \in Elems(HidableObs(cls)) : x \in Elems(t) THEN "AssertionError"
    ELSE IF ~(\A x \in Elems(t) : x \in Elems(HidableObs(cls))) THEN "AssertionError"
    ELSE "none"

ConstructWrapper ==
    /\ pc = "env_new"
    /\ LET t == AsTuple(kwargs.obs_to_hide)
           e == AssertObsToHide(env_class, t)
       IN  /\ err' = e
           /\ IF e # "none"
              THEN /\ pc' = "env_failed"
                   /\ UNCHANGED <<_obs_to_hide, _force_strength,
                                  _forward_reward_weight>>
              ELSE /\ pc' = "env_ready"
                   /\ _obs_to_hide' = t
                   /\ _force_strength' = 0
                   /\ _forward_reward_weight' = kwargs.forward_reward_weight
    /\ lastOp' = "__init__"
    /\ UNCHANGED <<inputs, fields, ret, sample, hist, out, tracker, env_class,
                   kwargs, xfrc_applied, observation>>

\* self.sim.data.qpos, self.sim.data.qvel and self.contact_forces, flattened
Qpos == <<"qpos0", "qpos1", "qpos2">>
Qvel == <<"qvel0", "qvel1">>
ContactForces == <<"cfrc0">>

\* the leading positions _get_obs drops: position[2:] and position[1:]
ExcludedPositions(cls) == IF cls = "AntEnvPOMPD" THEN 2 ELSE 1

\* a faulty variant of Observation: nothing is hidden
ObservationOfEverything(cls, hidden, exclude) ==
    (IF exclude THEN Slice(Qpos, ExcludedPositions(cls), Len(Qpos)) ELSE Qpos)
    \o Qvel
    \o (IF cls = "AntEnvPOMPD" THEN ContactForces ELSE <<>>)

\* np.concatenate(observations).ravel()
Observation(cls, hidden, exclude) ==
    LET position == IF exclude
                    THEN Slice(Qpos, ExcludedPositions(cls), Len(Qpos))
                    ELSE Qpos
    IN  (IF "positions" \notin Elems(hidden) THEN position ELSE <<>>)
        \o (IF "velocities" \notin Elems(hidden) THEN Qvel ELSE <<>>)
        \o (IF cls = "AntEnvPOMPD" /\ "contact_forces" \notin Elems(hidden)
            THEN ContactForces ELSE <<>>)

\* is the list that _get_obs concatenates empty (np.concatenate raises then)
NothingToConcatenate(cls, hidden) ==
    \A g \in Elems(HidableObs(cls)) : g \in Elems(hidden)

GetObs ==
    /\ pc = "env_ready"
    /\ IF NothingToConcatenate(env_class, _obs_to_hide)
       THEN /\ err' = "ValueError"
            /\ UNCHANGED observation
       ELSE /\ err' = "none"
            /\ observation' =
                  Observation(env_class, _obs_to_hide,
                              kwargs.exclude_current_positions_from_observation)
    /\ lastOp' = "_get_obs"
    /\ UNCHANGED <<pc, inputs, fields, ret, sample, hist, out, tracker,
                   env_class, kwargs, _obs_to_hide, _force_strength,
                   _forward_reward_weight, xfrc_applied>>

\* a faulty variant of ForceSign: the weight points against the force
ForceSignFlipped(f) == IF f < 0 THEN 1 ELSE -1

\* sign = -1.0 if self._force_strength < 0 else 1.0
ForceSign(f) == IF f < 0 THEN -1 ELSE 1

\* HalfCheetahEnvPOMPD.reset_model; the reset_model of gym it ends with
\* returns self._get_obs()
ResetModel ==
    /\ pc = "env_ready"
    /\ env_class = "HalfCheetahEnvPOMPD"
    /\ IF kwargs.random_force_com
       THEN \E f \in {-kwargs.max_force_strength, kwargs.max_force_strength} :
               /\ _force_strength' = f
               /\ _forward_reward_weight' =
                     Abs(_forward_reward_weight) * ForceSign(f)
       ELSE UNCHANGED <<_force_strength, _forward_reward_weight>>
    /\ observation' =
          Observation(env_class, _obs_to_hide,
                      kwargs.exclude_current_positions_from_observation)
    /\ err' = "none"
    /\ lastOp' = "reset_model"
    /\ UNCHANGED <<pc, inputs, fields, ret, sample, hist, out, tracker,
                   env_class, kwargs, _obs_to_hide, xfrc_applied>>

\* HalfCheetahEnvPOMPD.step: the force on the torso, then the step of gym
Step ==
    /\ pc = "env_ready"
    /\ env_class = "HalfCheetahEnvPOMPD"
    /\ xfrc_applied' = _force_strength
    /\ err' = "none"
    /\ lastOp' = "step"
    /\ UNCHANGED <<pc, inputs, fields, ret, sample, hist, out, tracker,
                   env_class, kwargs, _obs_to_hide, _force_strength,
                   _forward_reward_weight, observation>>

\* no trajectory store is part of the run
NoStore ==
    /\ file_traj = <<>>
    /\ file_split = [has |-> FALSE, pts |-> <<>>]
    /\ traj_dt = 0
    /\ control_dt = 0
    /\ trajectory = <<>>
    /\ split_points = <<>>
    /\ n_repeating_steps = 0
    /\ subtraj = <<>>
    /\ subtraj_step_no = 0
    /\ x_dist = Zero
    /\ ret = NoRet
    /\ sample = NoSample
    /\ hist = NoHist
    /\ out = NoOut

InitWrappers ==
    /\ pc = "env_new"
    /\ env_class \in {"AntEnvPOMPD", "HalfCheetahEnvPOMPD"}
    /\ kwargs \in [obs_to_hide : ObsChoices,
                   random_force_com : BOOLEAN,
                   max_force_strength : ForceChoices,
                   forward_reward_weight : WeightChoices,
                   exclude_current_positions_from_observation : BOOLEAN]
    /\ env_class = "AntEnvPOMPD" =>
          /\ ~kwargs.random_force_com
          /\ kwargs.max_force_strength = 0
          /\ kwargs.forward_reward_weight = 0
    /\ _obs_to_hide = <<>>
    /\ _force_strength = 0
    /\ _forward_reward_weight = 0
    /\ xfrc_applied = 0
    /\ observation = <<>>
    /\ err = "none"
    /\ lastOp = "none"
    /\ NoStore
    /\ NoTracker

NextWrappers ==
    \/ ConstructWrapper
    \/ GetObs
    \/ ResetModel
    \/ Step

SpecWrappers == InitWrappers /\ [][NextWrappers]_vars

(***************************************************************************)
(* CompleteTrajectoryReward (humanoid_gaitv2/reward_goals/reward.py).  Its *)
(* base class HumanoidTrajectory (reward_goals/trajectory.py) is a         *)
(* trajectory store: its construction, reset_trajectory() and              *)
(* get_next_sub_trajectory() follow the description of the store (cursor   *)
(* and working copy created at construction; a reset without a start step  *)
(* draws the cursor from [0, 0.45 * length), copies the trajectory and     *)
(* shifts channels 0 and 1; the wraparound adds the last value of channel  *)
(* 0 to x_dist and resets).  The normalised reward of a step is an input.  *)
(***************************************************************************)
\* a < b for rationals
FLess(a, b) == a[1] * b[2] < b[1] * a[2]

\* self.error_threshold = 0.20
ErrorThreshold == Frac(1, 5)

\* the values np.sum(traj_reward_vec * joint_importance) / np.sum(joint_importance)
\* takes: far off, at the threshold, close, exact
NormRewards == {Frac(1, 2), Frac(4, 5), Frac(9, 10), FromInt(1)}

\* the state after HumanoidTrajectory.__init__ for a trajectory of len steps
TrackerStore(len) ==
    /\ trajectory = Archive(1, len)
    /\ subtraj = Archive(1, len)
    /\ split_points = <<0, len>>
    /\ n_repeating_steps = 1
    /\ subtraj_step_no = 0
    /\ x_dist = Zero

\* HumanoidTrajectory.reset_trajectory() for np.random.rand() = r / RandDen
TrackerReset(r) ==
    LET cursor == RandomStart(r, Shape1(trajectory))
    IN  /\ x_dist' = Zero
        /\ subtraj_step_no' = cursor
        /\ subtraj' = ZeroOffset(WorkingCopy(trajectory), cursor)

\* a faulty variant of Terminates: the deviation ends the episode although
\* use_error_terminate is not set
TerminatesAlways(et, norm) == FLess(norm, FSub(FromInt(1), ErrorThreshold))

\* self.error_terminate and norm_traj_reward < (1 - self.error_threshold)
Terminates(et, norm) == et /\ FLess(norm, FSub(FromInt(1), ErrorThreshold))

\* the value __call__ returns for the normalised reward norm
Returned(et, norm) ==
    IF et THEN FAdd(FromInt(1), FDiv(FSub(norm, FromInt(1)), ErrorThreshold))
    ELSE norm

\* CompleteTrajectoryReward.__call__, with the read of the target column in
\* _calculate_each_comp_reward
RewardCall ==
    /\ pc = "tracking"
    /\ IF ~PyValid(traj_length, subtraj_step_no)
       THEN /\ err' = "IndexError"
            /\ UNCHANGED tracker
       ELSE \E norm \in NormRewards :
               /\ err' = "none"
               /\ terminate_trajectory_flag' =
                     IF Terminates(error_terminate, norm) THEN TRUE
                     ELSE terminate_trajectory_flag
               /\ norm_traj_reward' =
                     [has |-> TRUE, val |-> Returned(error_terminate, norm)]
               /\ UNCHANGED error_terminate
    /\ lastOp' = "__call__"
    /\ UNCHANGED <<pc, inputs, fields, ret, sample, hist, out, wrapper>>

\* a faulty variant of WrapsAfterUpdate: wraps one step late
WrapsAfterUpdateLate(cursor, len) == cursor > len

\* if self.subtraj_step_no >= self.traj_length
WrapsAfterUpdate(cursor, len) == cursor >= len

\* CompleteTrajectoryReward.update_state
UpdateState ==
    /\ pc = "tracking"
    /\ IF WrapsAfterUpdate(subtraj_step_no + 1, traj_length)
       THEN \E r \in 0..(RandDen - 1) : TrackerReset(r)
       ELSE /\ subtraj_step_no' = subtraj_step_no + 1
            /\ UNCHANGED <<x_dist, subtraj>>
    /\ err' = "none"
    /\ lastOp' = "update_state"
    /\ UNCHANGED <<pc, inputs, trajectory, split_points, n_repeating_steps, ret,
                   sample, hist, out, wrapper, tracker>>

\* CompleteTrajectoryReward.is_absorbing(state)
IsAbsorbing == terminate_trajectory_flag

\* CompleteTrajectoryReward.reset_state
ResetState ==
    /\ pc = "tracking"
    /\ \E r \in 0..(RandDen - 1) : TrackerReset(r)
    /\ terminate_trajectory_flag' = FALSE
    /\ err' = "none"
    /\ lastOp' = "reset_state"
    /\ UNCHANGED <<pc, inputs, trajectory, split_points, n_repeating_steps, ret,
                   sample, hist, out, wrapper, error_terminate, norm_traj_reward>>

\* the state after CompleteTrajectoryReward.__init__
InitReward ==
    /\ pc = "tracking"
    /\ \E len \in 1..MaxLen : TrackerStore(len)
    /\ error_terminate \in BOOLEAN
    /\ terminate_trajectory_flag = FALSE
    /\ norm_traj_reward = NoReward
    /\ file_traj = <<>>
    /\ file_split = [has |-> FALSE, pts |-> <<>>]
    /\ traj_dt = 0
    /\ control_dt = 0
    /\ ret = NoRet
    /\ sample = NoSample
    /\ hist = NoHist
    /\ out = NoOut
    /\ err = "none"
    /\ lastOp = "__init__"
    /\ NoWrapper

NextReward ==
    \/ RewardCall
    \/ UpdateState
    \/ ResetState

SpecReward == InitReward /\ [][NextReward]_vars

(***************************************************************************)
(* Properties.                                                             *)
(***************************************************************************)
Ready == pc = "ready"

\* the last call was a reset with an explicit start step inside the trajectory
AfterExplicitReset ==
    /\ Ready
    /\ lastOp = "reset_trajectory"
    /\ hist.reset = "explicit"
    /\ 0 <= hist.start /\ hist.start < traj_length

\* C1: after a reset with an explicit start step s in [0, traj_length) the
\* working sub-trajectory's channels 0 and 1 are exactly zero at column s and
\* the cursor equals s.
C1_ZeroOffsetAtStart ==
    AfterExplicitReset =>
        /\ err = "none"
        /\ subtraj_step_no = hist.start
        /\ subtraj[1][hist.start + 1] = Zero
        /\ subtraj[2][hist.start + 1] = Zero

\* a reset at a later column of a trajectory that is not zero there
C1_Witness ==
    /\ AfterExplicitReset
    /\ hist.start >= 1
    /\ trajectory[1][hist.start + 1] # Zero
    /\ trajectory[2][hist.start + 1] # Zero
    /\ subtraj[1][1] # trajectory[1][1]

\* C2 (as claimed): on a store that holds samples, and whose last reset (if
\* any) returned, every get_next_sample call returns a sample, also the call
\* that finds the cursor at traj_length; the store never gets stuck.
C2_EveryCallReturnsASample ==
    (/\ Ready
     /\ traj_length > 0
     /\ hist.reset = "none" \/ hist.ok
     /\ lastOp = "get_next_sample") => err = "none"

\* the calls since a reset at start step 0 were get_next_sample calls only
PlaybackFromZero ==
    /\ Ready
    /\ hist.reset = "explicit" /\ hist.ok /\ hist.start = 0
    /\ hist.pure

\* C3 (as claimed): from a reset at start step 0, exactly traj_length calls of
\* get_next_sample trigger exactly one get_next_sub_trajectory call.
C3_OneWrapWithinLengthCalls ==
    (PlaybackFromZero /\ hist.nsamp = traj_length) => hist.nsub = 1

\* C3 (amended): from a reset at start step 0, the first traj_length calls of
\* get_next_sample trigger no get_next_sub_trajectory call; the call after
\* them is the first that triggers one.
C3_WrapOnTheCallAfterLength ==
    /\ (PlaybackFromZero /\ hist.nsamp <= traj_length) => hist.nsub = 0
    /\ (PlaybackFromZero /\ hist.nsamp = traj_length + 1) => hist.nsub = 1

C3_Witness ==
    /\ PlaybackFromZero
    /\ traj_length >= 2
    /\ hist.nsamp = traj_length + 1
    /\ hist.nsub = 1

C5_CursorBelowLength ==
    (Ready /\ traj_length > 0 /\ err = "none")
        => (0 <= subtraj_step_no /\ subtraj_step_no < traj_length)

\* C5 (amended): with start steps that are omitted or lie in [0, traj_length],
\* the cursor satisfies 0 <= subtraj_step_no <= traj_length in every state.
C5_CursorAtMostLength ==
    Ready => (0 <= subtraj_step_no /\ subtraj_step_no <= traj_length)

\* the last column was handed out and the cursor stands at traj_length
C5_Witness ==
    /\ Ready
    /\ traj_length > 0
    /\ lastOp = "get_next_sample" /\ err = "none"
    /\ subtraj_step_no = traj_length

\* the last call was a reset that drew its start step at random
AfterRandomReset ==
    /\ Ready
    /\ lastOp = "reset_trajectory"
    /\ hist.reset = "random"

\* the drawn cursor c satisfies 0 <= c < 0.45 * traj_length
BelowRandomBound == 0 <= subtraj_step_no /\ 100 * subtraj_step_no < 45 * traj_length

\* C6 (as claimed): every reset with the start step omitted, on a store built
\* with positive time steps, chooses a cursor c with 0 <= c < 0.45 * traj_length.
C6_RandomStartBelowBound ==
    (AfterRandomReset /\ traj_dt > 0 /\ control_dt > 0) => BelowRandomBound

\* C6 (amended): every reset with the start step omitted on a working
\* sub-trajectory that is not empty (traj_length >= 1) returns and chooses a
\* cursor c with 0 <= c < 0.45 * traj_length.
C6_RandomStartBelowBoundNonEmpty ==
    (AfterRandomReset /\ traj_length >= 1) => (err = "none" /\ BelowRandomBound)

\* a random reset that drew a cursor past the first column
C6_Witness ==
    /\ AfterRandomReset
    /\ subtraj_step_no >= 2
    /\ 100 * (subtraj_step_no + 2) > 45 * traj_length

\* C7: after a reset that started at s, the k-th following get_next_sample call
\* (s + k - 1 < traj_length) returns all channels of the working sub-trajectory
\* at column s + k - 1 and leaves the cursor at s + k.
C7_SamplesFollowTheCursor ==
    (/\ Ready
     /\ hist.ok
     /\ lastOp = "get_next_sample"
     /\ hist.nsamp >= 1
     /\ hist.start + hist.nsamp - 1 < traj_length)
    => /\ err = "none"
       /\ sample.has
       /\ sample.vals = [c \in 1..Nch |-> subtraj[c][hist.start + hist.nsamp]]
       /\ subtraj_step_no = hist.start + hist.nsamp

\* the third sample after a reset in the middle of the trajectory
C7_Witness ==
    /\ Ready
    /\ hist.ok /\ hist.start >= 2
    /\ lastOp = "get_next_sample" /\ err = "none"
    /\ hist.nsamp = 3
    /\ subtraj_step_no = hist.start + 3

\* C8: a sample handed out by get_next_sample shares no memory with the store:
\* a write of the caller into it changes neither the working sub-trajectory nor
\* the full trajectory, and a store call that hands out no new sample leaves
\* the sample the caller holds as it is.
C8_SampleIsACopy ==
    /\ [](sample.has => ~sample.view)
    /\ [][lastOp' = "modify_sample"
            => (subtraj' = subtraj /\ trajectory' = trajectory /\ sample' # sample)]_vars
    /\ [][(sample.has /\ sample'.has /\ lastOp' # "modify_sample"
           /\ ~(lastOp' = "get_next_sample" /\ err' = "none"))
            => sample' = sample]_vars

\* the caller has overwritten the sample and the store still holds the old values
C8_Witness ==
    /\ Ready
    /\ lastOp = "modify_sample"
    /\ sample.vals[1] # subtraj[1][sample.col + 1]
    /\ sample.vals[Nch] = subtraj[Nch][sample.col + 1]

\* the split points __init__ starts from
LoadedSplitPoints ==
    IF file_split.has THEN file_split.pts ELSE <<0, Shape1(file_traj)>>

\* C9 (as claimed): constructing with traj_dt equal to control_dt succeeds,
\* skips the interpolation and holds the loaded trajectory and split points.
C9_EqualStepsKeepTheInput ==
    (lastOp = "__init__" /\ traj_dt = control_dt /\ traj_dt > 0)
    => /\ Ready
       /\ trajectory = file_traj
       /\ split_points = LoadedSplitPoints

\* m is an integer nearest to the rational p * traj_dt / control_dt
Nearest(m, p) == 2 * Abs(m * control_dt - p * traj_dt) <= control_dt

\* C10: for a factor f > 0 the resampled trajectory has round(L * f) samples
\* per channel, the channels keep their count and order (each resampled
\* channel starts, and with two or more samples ends, at the recorded channel's
\* first and last value) and every split point p becomes round(p * f).
C10_ResampleLengthLaw ==
    (Ready /\ traj_dt > 0 /\ control_dt > 0)
    => /\ Len(trajectory) = Len(file_traj)
       /\ \A c \in 1..Len(trajectory) :
            LET n == Len(trajectory[c])
                L == Len(file_traj[c])
            IN  /\ Nearest(n, L)
                /\ n >= 1 => trajectory[c][1] = file_traj[c][1]
                /\ n >= 2 => trajectory[c][n] = file_traj[c][L]
       /\ Len(split_points) = Len(LoadedSplitPoints)
       /\ \A i \in 1..Len(split_points) :
            Nearest(split_points[i], LoadedSplitPoints[i])

\* doubling the rate: L samples become 2 L and the split points <<0, L>>
\* become <<0, 2 L>>
C10_Witness ==
    /\ Ready
    /\ traj_dt = 2 /\ control_dt = 1
    /\ ~file_split.has
    /\ Shape1(trajectory) = 2 * Shape1(file_traj)
    /\ split_points = <<0, 2 * Shape1(file_traj)>>
    /\ trajectory[1][2] # file_traj[1][2]

\* the split points of seq never step back
NonDecreasing(seq) == \A i \in 1..(Len(seq) - 1) : seq[i] <= seq[i + 1]

\* C11 (as claimed): the split points of every constructed store are
\* non-decreasing, start at 0 and end at the number of time steps of the held
\* trajectory.
C11_SplitPointsCoverTheTrajectory ==
    Ready =>
        /\ Len(split_points) >= 1
        /\ NonDecreasing(split_points)
        /\ split_points[1] = 0
        /\ split_points[Len(split_points)] = Shape1(trajectory)

\* C12: a store built from an archive without split_points holds the split
\* points [0, L] for its trajectory of L time steps, that is one segment, and
\* the number of repeats of every store is len(split_points) - 1.
C12_DefaultSingleSegment ==
    /\ (Ready /\ ~file_split.has) =>
          /\ split_points = <<0, Shape1(trajectory)>>
          /\ n_repeating_steps = 1
    /\ Ready => n_repeating_steps = Len(split_points) - 1

\* an archive of 4 samples without split_points, resampled to 3 samples
C12_Witness ==
    /\ Ready
    /\ ~file_split.has
    /\ Shape1(file_traj) = 4
    /\ split_points = <<0, 3>>
    /\ n_repeating_steps = 1

\* the last call was a segment extraction / one that returned
SegmentCall == Ready /\ lastOp = "_get_traj_gait_sub_steps"
SegmentReturned == SegmentCall /\ err = "none"

\* the first column of the extracted repeats and the column after their last
SegStart == split_points[out.args[1] + 1]
SegEnd == split_points[out.args[1] + out.args[2] + 1]

\* C13: the extraction for repeat index i and count N returns, for every
\* channel, the columns split_points[i] up to but excluding split_points[i+N];
\* channel 0 is shifted so that its first value in the segment is 0 and every
\* other channel is unshifted.  (The call returns whenever i + N is an index of
\* split_points and split_points[i] is a column of the trajectory.)
C13_SegmentColumnsShifted ==
    /\ (/\ SegmentCall
        /\ out.args[1] + out.args[2] <= Len(split_points) - 1
        /\ SegStart < Shape1(trajectory)) => err = "none"
    /\ SegmentReturned =>
          LET a == SegStart
              b == SegEnd
              w == IF b > a THEN b - a ELSE 0
          IN  /\ Len(out.seg) = Len(trajectory)
              /\ \A c \in 1..Len(out.seg) :
                    /\ Len(out.seg[c]) = w
                    /\ \A k \in 1..w :
                          out.seg[c][k] =
                             IF c = 1
                             THEN FSub(trajectory[1][a + k], trajectory[1][a + 1])
                             ELSE trajectory[c][a + k]
              /\ w >= 1 => out.seg[1][1] = Zero

\* split points <<0, 4, 8>>, repeat index 1, count 1: the columns 4..7
C13_Witness ==
    /\ SegmentReturned
    /\ split_points = <<0, 4, 8>>
    /\ out.args = <<1, 1>>
    /\ Len(out.seg[1]) = 4
    /\ out.seg[1][1] = Zero
    /\ trajectory[1][5] # Zero
    /\ out.seg[2][1] = trajectory[2][5]

\* the split points are non-decreasing, start at 0 and end at the length
ValidSplitPoints ==
    /\ Len(split_points) >= 2
    /\ NonDecreasing(split_points)
    /\ split_points[1] = 0
    /\ split_points[Len(split_points)] = Shape1(trajectory)

\* the summed lengths of the single-repeat segments of the repeats i, i+1, ...
\* that the extraction returns
RECURSIVE SegmentLengths(_)
SegmentLengths(i) ==
    IF i > Len(split_points) - 2 THEN 0
    ELSE Shape1(GaitSubSteps(trajectory, split_points, i, 1).seg)
         + SegmentLengths(i + 1)

\* C14: the single-repeat segment of repeat index i has length
\* split_points[i+1] - split_points[i], and for valid split points the lengths
\* of the segments of all repeat indices sum to the trajectory length.
C14_SegmentsTile ==
    /\ (SegmentReturned /\ out.args[2] = 1) =>
          \A c \in 1..Len(out.seg) : Len(out.seg[c]) = SegEnd - SegStart
    /\ (Ready /\ ValidSplitPoints) => SegmentLengths(0) = Shape1(trajectory)

\* split points <<0, 1, 3>>: the segments have 1 and 2 columns
C14_Witness ==
    /\ SegmentReturned
    /\ split_points = <<0, 1, 3>>
    /\ out.args = <<0, 1>>
    /\ Len(out.seg[1]) = 1
    /\ Shape1(GaitSubSteps(trajectory, split_points, 1, 1).seg) = 2
    /\ Shape1(trajectory) = 3

\* C15: the extraction raises IndexError whenever i + N > len(split_points) - 1
\* and a raising extraction leaves the trajectory and the split points as
\* they were.
C15_OutOfRangeRaises ==
    /\ []((SegmentCall /\ out.args[1] + out.args[2] > Len(split_points) - 1)
            => (err = "IndexError" /\ out.seg = <<>>))
    /\ [][(pc = "ready" /\ lastOp' = "_get_traj_gait_sub_steps" /\ err' # "none")
            => (trajectory' = trajectory /\ split_points' = split_points)]_vars

\* two repeats asked for from the last of two repeats
C15_Witness ==
    /\ SegmentCall
    /\ err = "IndexError"
    /\ out.args = <<1, 2>>
    /\ split_points = <<0, 4, 8>>
    /\ Shape1(trajectory) = 8

\* C16 (as claimed): a resampling with a factor <= 0, or of a trajectory with
\* fewer than 4 samples, fails at construction.
C16_BadResamplingRejected ==
    (/\ pc # "new"
     /\ control_dt # 0
     /\ traj_dt # control_dt
     /\ (traj_dt * control_dt <= 0 \/ Shape1(file_traj) < 4))
    => pc = "failed"

\* C17 (as claimed): an archive whose split points do not start at 0 or do not
\* end at the number of recorded time steps is rejected at construction (shown
\* for positive step sizes, where the resampling factor is positive).
C17_UncoveringSplitPointsRejected ==
    (/\ pc # "new"
     /\ traj_dt * control_dt > 0
     /\ file_split.has
     /\ (\/ file_split.pts[1] # 0
         \/ file_split.pts[Len(file_split.pts)] # Shape1(file_traj)))
    => pc = "failed"

\* a get_next_sample call that finds the cursor past the last column
PastTheEndCall ==
    /\ pc = "ready"
    /\ lastOp' = "get_next_sample"
    /\ subtraj_step_no >= traj_length

C19_StoreIsReadOnly ==
    [][pc = "ready" =>
         (trajectory' = trajectory /\ split_points' = split_points)]_vars

\* a segment was extracted and shifted, the store still holds what the
\* interpolation gave
C19_Witness ==
    /\ SegmentReturned
    /\ out.args = <<1, 1>>
    /\ Len(out.seg[1]) >= 2
    /\ out.seg[1] # Slice(trajectory[1], SegStart, SegEnd)
    /\ out.seg[3] = Slice(trajectory[3], SegStart, SegEnd)
    /\ trajectory = InterpolateTrajectory(file_traj, Factor(traj_dt, control_dt))

\* the last call was a create_dataset that returned
DatasetReturned == Ready /\ lastOp = "create_dataset" /\ err = "none"

\* the channels whose key is not among the ignored keys, in key order
KeptChannels ==
    SelectSeq([c \in 1..Len(Keys) |-> c],
              LAMBDA c : \A j \in 1..Len(out.args) : out.args[j] # Keys[c])

\* the values of the kept channels at time step t (counted from 1)
KeptRow(t) == [j \in 1..Len(KeptChannels) |-> trajectory[KeptChannels[j]][t]]

\* C20: create_dataset on a trajectory of T >= 1 time steps returns T - 1
\* states and T - 1 next states with next_states[t] == states[t + 1], an
\* absorbing vector of T - 1 zeros, and in every state exactly the channels
\* whose keys are not in ignore_keys, in key order.
C20_DatasetOfConsecutivePairs ==
    (DatasetReturned /\ Shape1(trajectory) >= 1) =>
        LET T == Shape1(trajectory)
        IN  /\ Len(out.states) = T - 1
            /\ Len(out.next_states) = T - 1
            /\ Len(out.absorbing) = T - 1
            /\ \A t \in 1..(T - 1) :
                  /\ out.absorbing[t] = Zero
                  /\ out.states[t] = KeptRow(t)
                  /\ out.next_states[t] = KeptRow(t + 1)
                  /\ t < T - 1 => out.next_states[t] = out.states[t + 1]

\* 8 time steps, one key ignored: 7 pairs of two channels each
C20_Witness ==
    /\ DatasetReturned
    /\ out.args = <<"q_pelvis_tz">>
    /\ Shape1(trajectory) = 8
    /\ Len(out.states) = 7
    /\ Len(out.states[1]) = 2
    /\ out.next_states[1] # out.states[1]
    /\ out.next_states[1] = out.states[2]

\* the last call was a reset that returned
AfterReturnedReset == Ready /\ lastOp = "reset_trajectory" /\ err = "none"

\* C21: a reset returns as qpos the first len_qpos channels and as qvel the
\* next len_qvel channels of the working sub-trajectory at the cursor, so the
\* first two entries of the returned qpos are 0.
C21_ResetReturnsTheCursorColumn ==
    AfterReturnedReset =>
        /\ ret.has
        /\ ret.qpos = [c \in 1..LenQpos |-> subtraj[c][subtraj_step_no + 1]]
        /\ ret.qvel = [c \in 1..LenQvel |->
                          subtraj[LenQpos + c][subtraj_step_no + 1]]
        /\ ret.qpos[1] = Zero
        /\ ret.qpos[2] = Zero

\* a reset at column 1 that returned a velocity other than 0
C21_Witness ==
    /\ AfterReturnedReset
    /\ subtraj_step_no = 1
    /\ ret.qpos = <<Zero, Zero>>
    /\ Len(ret.qvel) = 1
    /\ ret.qvel[1] # Zero
    /\ trajectory[1][2] # Zero

\* the last reset returned
SinceReturnedReset == Ready /\ hist.reset # "none" /\ hist.ok

\* C22: after every reset that ended at cursor c the working sub-trajectory
\* is the full trajectory with channels 0 and 1 shifted by their value at
\* column c and every other channel unshifted; nothing accumulates over
\* resets.
C22_OffsetFromTheFullTrajectory ==
    SinceReturnedReset =>
        /\ Len(subtraj) = Len(trajectory)
        /\ \A ch \in 1..Len(subtraj) :
              /\ Len(subtraj[ch]) = Len(trajectory[ch])
              /\ \A t \in 1..Len(subtraj[ch]) :
                    subtraj[ch][t] =
                       IF ch <= 2
                       THEN FSub(trajectory[ch][t], trajectory[ch][hist.start + 1])
                       ELSE trajectory[ch][t]

\* a random reset at a later column, followed by playback
C22_Witness ==
    /\ SinceReturnedReset
    /\ hist.reset = "random"
    /\ hist.start >= 1
    /\ hist.nsamp >= 1
    /\ subtraj[1] # trajectory[1]
    /\ subtraj[2] # trajectory[2]
    /\ subtraj[3] = trajectory[3]

\* C28: in every state of a constructed store the working sub-trajectory has
\* the channel count and the time-step count of the full resampled
\* trajectory, never those of a single repeat.
C28_WorkingCopyHasTheFullLength ==
    Ready =>
        /\ Len(subtraj) = Len(trajectory)
        /\ traj_length = Shape1(trajectory)
        /\ \A c \in 1..Len(subtraj) : Len(subtraj[c]) = Len(trajectory[c])

\* a store of two repeats of 4 columns each, played past the first repeat
C28_Witness ==
    /\ SinceReturnedReset
    /\ split_points = <<0, 4, 8>>
    /\ traj_length = 8
    /\ hist.start = 0
    /\ hist.nsamp >= 5
    /\ subtraj_step_no >= 5
    /\ err = "none"

\* C29 (as claimed): a get_next_sample or get_next_sub_trajectory call that
\* raises leaves cursor, x_dist and working sub-trajectory as they were.
C29_RaisingCallsChangeNothing ==
    [][(/\ pc = "ready"
        /\ lastOp' \in {"get_next_sample", "get_next_sub_trajectory"}
        /\ err' # "none")
       => (/\ subtraj_step_no' = subtraj_step_no
           /\ x_dist' = x_dist
           /\ subtraj' = subtraj)]_vars

\* column s of the full trajectory with channels 0 and 1 shifted to 0
ShiftedColumn(s) ==
    [c \in 1..Len(trajectory) |->
        IF c <= 2 THEN Zero ELSE trajectory[c][s + 1]]

\* C30: a returning reset with an explicit start step s leaves a cursor, an
\* x_dist, a working sub-trajectory and a returned (qpos, qvel) that are
\* functions of the full trajectory and s alone, whatever was called before,
\* and the same reset called again changes none of them.
C30_ResetIsIdempotent ==
    /\ [](AfterExplicitReset =>
            /\ err = "none"
            /\ subtraj_step_no = hist.start
            /\ x_dist = Zero
            /\ \A c \in 1..Len(trajectory) :
                  Column(subtraj, hist.start)[c] = ShiftedColumn(hist.start)[c]
            /\ \A t \in 0..(traj_length - 1) :
                  \A c \in 1..Len(trajectory) :
                     FSub(subtraj[c][t + 1], Column(subtraj, hist.start)[c])
                        = FSub(trajectory[c][t + 1], trajectory[c][hist.start + 1])
            /\ ret = [has  |-> TRUE,
                      qpos |-> SubSeq(ShiftedColumn(hist.start), 1, LenQpos),
                      qvel |-> SubSeq(ShiftedColumn(hist.start), LenQpos + 1,
                                      LenQpos + LenQvel)])
    /\ [][(/\ AfterExplicitReset
           /\ lastOp' = "reset_trajectory"
           /\ hist'.reset = "explicit"
           /\ hist'.start = hist.start)
          => (/\ subtraj_step_no' = subtraj_step_no
              /\ x_dist' = x_dist
              /\ subtraj' = subtraj
              /\ ret' = ret)]_vars

\* a reset at column 3 of an 8-column trajectory
C30_Witness ==
    /\ AfterExplicitReset
    /\ hist.start = 3
    /\ traj_length = 8
    /\ x_dist = Zero
    /\ ret.has
    /\ ret.qvel = <<trajectory[3][4]>>

\* the constructor of a gym wrapper has run
WrapperConstructed == pc \in {"env_ready", "env_failed"}

\* the names the caller asks to hide
AskedToHide ==
    IF kwargs.obs_to_hide.is_str THEN {kwargs.obs_to_hide.str}
    ELSE Elems(kwargs.obs_to_hide.items)

\* the observation groups of the wrapper
Groups ==
    IF env_class = "AntEnvPOMPD" THEN {"positions", "velocities", "contact_forces"}
    ELSE {"positions", "velocities"}

\* C23: the constructors of AntEnvPOMPD and HalfCheetahEnvPOMPD reject every
\* obs_to_hide that contains all hidable groups and every obs_to_hide that
\* contains a name outside the hidable groups, and no other; a single string
\* is accepted as the one-element tuple of it.
C23_BadObsToHideRejected ==
    WrapperConstructed =>
        /\ pc = "env_failed" <=>
              (Groups \subseteq AskedToHide \/ ~(AskedToHide \subseteq Groups))
        /\ pc = "env_failed" => err = "AssertionError"
        /\ pc = "env_ready" => Elems(_obs_to_hide) = AskedToHide
        /\ (pc = "env_ready" /\ kwargs.obs_to_hide.is_str) =>
              _obs_to_hide = <<kwargs.obs_to_hide.str>>

\* contact_forces is no group of the half cheetah: as a string it is rejected
C23_Witness ==
    /\ pc = "env_failed"
    /\ err = "AssertionError"
    /\ env_class = "HalfCheetahEnvPOMPD"
    /\ kwargs.obs_to_hide = Str("contact_forces")

\* the entries of an observation group
GroupData(g) ==
    IF g = "positions"
    THEN IF kwargs.exclude_current_positions_from_observation
         THEN SubSeq(Qpos, (IF env_class = "AntEnvPOMPD" THEN 3 ELSE 2), Len(Qpos))
         ELSE Qpos
    ELSE IF g = "velocities" THEN Qvel
    ELSE ContactForces

\* the entries of the groups of gs that are not hidden, in the order of gs
RECURSIVE Visible(_)
Visible(gs) ==
    IF Len(gs) = 0 THEN <<>>
    ELSE (IF Head(gs) \in Groups /\ Head(gs) \notin Elems(_obs_to_hide)
          THEN GroupData(Head(gs)) ELSE <<>>) \o Visible(Tail(gs))

\* C24: for every accepted obs_to_hide the observation of _get_obs holds
\* exactly the groups that are not hidden, in the order positions, velocities,
\* contact_forces, and is never empty.
C24_ObservationOfTheVisibleGroups ==
    (pc = "env_ready" /\ lastOp = "_get_obs") =>
        /\ err = "none"
        /\ observation = Visible(<<"positions", "velocities", "contact_forces">>)
        /\ observation # <<>>

\* the ant with its velocities hidden: positions, then contact forces
C24_Witness ==
    /\ pc = "env_ready"
    /\ lastOp = "_get_obs"
    /\ env_class = "AntEnvPOMPD"
    /\ _obs_to_hide = <<"velocities">>
    /\ observation = <<"qpos2", "cfrc0">>

\* the sign of a number
Sgn(x) == IF x < 0 THEN -1 ELSE IF x > 0 THEN 1 ELSE 0

\* a reset_model call of the half cheetah
ResetModelCall == pc = "env_ready" /\ lastOp' = "reset_model"

\* C25 (as claimed): with random_force_com every reset_model leaves a force of
\* +max_force_strength or -max_force_strength and a forward reward weight of
\* the sign of the force and of unchanged absolute value; without
\* random_force_com the force stays 0 and the weight is not changed.
C25_WeightFollowsTheForce ==
    [][ResetModelCall =>
         IF kwargs.random_force_com
         THEN /\ _force_strength' \in {kwargs.max_force_strength,
                                       -kwargs.max_force_strength}
              /\ Sgn(_forward_reward_weight') = Sgn(_force_strength')
              /\ Abs(_forward_reward_weight') = Abs(_forward_reward_weight)
         ELSE /\ _force_strength' = 0
              /\ _forward_reward_weight' = _forward_reward_weight]_vars

\* C25 (amended): as claimed, with the sign of the weight equal to the sign of
\* the force whenever max_force_strength and the weight are both not 0; no
\* call but reset_model changes force or weight, so the weight keeps the
\* absolute value it was constructed with.
C25_WeightFollowsTheNonZeroForce ==
    /\ [][ResetModelCall =>
            IF kwargs.random_force_com
            THEN /\ _force_strength' \in {kwargs.max_force_strength,
                                          -kwargs.max_force_strength}
                 /\ (kwargs.max_force_strength # 0 /\ _forward_reward_weight # 0)
                       => Sgn(_forward_reward_weight') = Sgn(_force_strength')
                 /\ Abs(_forward_reward_weight') = Abs(_forward_reward_weight)
            ELSE /\ _force_strength' = 0
                 /\ _forward_reward_weight' = _forward_reward_weight]_vars
    /\ [][(pc = "env_ready" /\ lastOp' # "reset_model") =>
            /\ _force_strength' = _force_strength
            /\ _forward_reward_weight' = _forward_reward_weight]_vars
    /\ [](pc = "env_ready" =>
            /\ Abs(_forward_reward_weight) = Abs(kwargs.forward_reward_weight)
            /\ ~kwargs.random_force_com =>
                  /\ _force_strength = 0
                  /\ _forward_reward_weight = kwargs.forward_reward_weight)

\* a backward force was drawn and applied: the weight 1 has become -1
C25_Witness ==
    /\ pc = "env_ready"
    /\ env_class = "HalfCheetahEnvPOMPD"
    /\ kwargs.random_force_com
    /\ kwargs.forward_reward_weight = 1
    /\ lastOp = "step"
    /\ _force_strength = -5
    /\ xfrc_applied = -5
    /\ _forward_reward_weight = -1

\* C26: in CompleteTrajectoryReward the cursor satisfies
\* 0 <= subtraj_step_no < traj_length after every update_state call that
\* returns, so the reward's read of the target column never raises.
C26_TrackerCursorInRange ==
    /\ (pc = "tracking" /\ lastOp = "update_state" /\ err = "none") =>
          (0 <= subtraj_step_no /\ subtraj_step_no < traj_length)
    /\ (pc = "tracking" /\ lastOp = "__call__") => err = "none"

\* the update at the last column has wrapped to a new start
C26_Witness ==
    /\ pc = "tracking"
    /\ lastOp = "update_state"
    /\ traj_length = 4
    /\ subtraj_step_no = 1
    /\ subtraj[1][2] = Zero
    /\ subtraj[1][1] # Zero

\* C27: the termination flag is a latch: false after construction and after
\* every reset_state, set only by a __call__ with use_error_terminate whose
\* normalised reward is below 1 - error_threshold (the returned value is then
\* below 0), kept until the next reset_state, and never true without
\* use_error_terminate.
C27_TerminationLatch ==
    /\ (pc = "tracking" /\ lastOp = "__init__") => ~IsAbsorbing
    /\ [](pc = "tracking" /\ lastOp = "reset_state" => ~IsAbsorbing)
    /\ [](pc = "tracking" /\ ~error_terminate => ~IsAbsorbing)
    /\ [][(pc = "tracking" /\ ~terminate_trajectory_flag
           /\ terminate_trajectory_flag')
          => (/\ lastOp' = "__call__"
              /\ error_terminate
              /\ FLess(norm_traj_reward'.val, Zero))]_vars
    /\ [][(pc = "tracking" /\ lastOp' = "__call__" /\ error_terminate
           /\ FLess(norm_traj_reward'.val, Zero))
          => terminate_trajectory_flag']_vars
    /\ [][(pc = "tracking" /\ terminate_trajectory_flag
           /\ lastOp' # "reset_state")
          => terminate_trajectory_flag']_vars

\* the flag was set by a low reward and has outlived a wraparound
C27_Witness ==
    /\ pc = "tracking"
    /\ error_terminate
    /\ IsAbsorbing
    /\ lastOp = "update_state"
    /\ norm_traj_reward.has
    /\ FLess(norm_traj_reward.val, Zero)
    /\ traj_length = 1

=============================================================================
